---- MODULE Spec2Model ----
(***************************************************************************)
(* Model of the AKS custom autoscaler (src/src/scale.py): the              *)
(* reconciliation loop of main() and one call of aks_scaler() per tick,    *)
(* with the remote calls (cloud pool API, Kubernetes API, az CLI) as       *)
(* nondeterministic inputs that either answer or raise.                    *)
(*                                                                         *)
(* Time is counted in whole seconds.  The clock moves while main starts up, *)
(* and while the program sleeps (the poll period of main, the 1 s poll of   *)
(* the drain wait); remote calls within a tick are instantaneous.           *)
(***************************************************************************)
EXTENDS Integers, Sequences, FiniteSets, TLC

VARIABLES
    clock,                    \* datetime.now(tz=utc), in seconds
    scaler_start_time,        \* main: scaler_start_time
    last_scaling_event_time,  \* main: last_scaling_event_time (None or a time)
    pc,                       \* position of main / aks_scaler
    ticks,                    \* iterations of the while-loop completed
    outcome,                  \* how the latest tick ended: running, returned, raised
    config_params,            \* Config, loaded once
    agent_pool,               \* AgentPool fetched at the start of the tick
    last_arg,                 \* aks_scaler: parameter last_scaling_event_time
    scaling_start_time,       \* aks_scaler: scaling_start_time
    scaling_event_time,       \* aks_scaler: scaling_event_time
    pre_scale_pool_size,      \* aks_scaler: pre_scale_pool_size
    post_scale_pool_size,     \* aks_scaler: post_scale_pool_size
    nodes,                    \* get_nodes_in_pool: nodes (the listing)
    nodes_pre_scale,          \* aks_scaler: nodes_pre_scale
    queued_pods,              \* aks_scaler: queued_pods
    pods,                     \* get_number_of_pods_in_phase: pods (the phase of each listed pod)
    node_to_remove,           \* aks_scaler: node_to_remove
    polls,                    \* evaluations of the drain-wait loop condition this tick
    busy,                     \* line 172: len(get_pods_running_on_node(...)) > 0, latest answer
    warned,                   \* the warning of line 178 was logged this tick
    calls                     \* mutating remote calls issued this tick, in order

vars == <<clock, scaler_start_time, last_scaling_event_time, pc, ticks, outcome,
          config_params, agent_pool, last_arg, scaling_start_time,
          scaling_event_time, pre_scale_pool_size, post_scale_pool_size,
          nodes, nodes_pre_scale, queued_pods, pods, node_to_remove, polls,
          busy, warned, calls>>

(***************************************************************************)
(* Bounds of the model.                                                    *)
(***************************************************************************)
MaxTicks == 1        \* times the reconciliation loop goes round again
MaxCount == 2        \* largest pool count the cloud reports
MaxNodes == 3        \* longest node listing the orchestrator returns
TIMEOUT == 2         \* Config.TIMEOUT used by the model (seconds)
MaxPods == 4         \* longest pod listing given to get_number_of_pods_in_phase

(***************************************************************************)
(* Program constants.                                                      *)
(***************************************************************************)
MAX_POD_QUEUE == 10
DELAY_BEFORE_SCALE_UP == 100
DELAY_BEFORE_SCALE_DOWN == 300
SecondsPerDay == 86400     \* timedelta.seconds lies in 0 .. 86399
PollInterval == 1          \* sleep(1) of the drain wait

None == -1                 \* Python's None, for variables that hold a time or a count
Unbound == "<unbound>"     \* a local name that was never assigned
NoNode == "<none>"         \* node_to_remove before the decision is reached

\* timedelta(seconds=d).seconds: the seconds field of the normalised
\* (days, seconds) pair, never negative.
TimedeltaSeconds(d) == d % SecondsPerDay

NodeNames == {"nodeA", "nodeB", "nodeX"}
\* Sort key of the node names (string order).
NameRank == [n \in NodeNames |->
               CASE n = "nodeA" -> 1 [] n = "nodeB" -> 2 [] OTHER -> 3]
\* metadata.labels.get("agentpool") of each node
AgentpoolLabel == [n \in NodeNames |-> IF n = "nodeX" THEN "pool2" ELSE "pool1"]
PoolName == "pool1"        \* agent_pool.name

Strategies == {"latest", "oldest", "random"}
ProvisioningStates == {"Succeeded", "Updating"}
\* The count of pods in the configured phase that line 148 obtains.  In Spec
\* a pod listing is represented by this count; CountSpec below applies the
\* counting function itself to listings.
QueuedChoices == {5, MAX_POD_QUEUE, 15}
\* pod.status.phase: values of the Literal of line 62 that the model uses
PodPhases == {"Queued", "Pending", "Running", "Failed"}
DEFAULT_POD_PHASE == "Queued"
\* Seconds that pass between two ticks that do something (the poll period, and
\* the ticks in between that found nothing to do), and between line 235 and the
\* first such tick.
Advance == {50, 200, 86350}


(***************************************************************************)
(* Inputs the remote calls can return.                                      *)
(***************************************************************************)
\* client.agent_pools.get(...): the pool descriptor
Pools == [count : 0..MaxCount, enable_auto_scaling : BOOLEAN,
          provisioning_state : ProvisioningStates]

RECURSIVE SeqsUpTo(_, _)
SeqsUpTo(S, n) ==
    IF n = 0 THEN {<<>>}
    ELSE LET shorter == SeqsUpTo(S, n - 1)
         IN  shorter \cup {Append(q, x) : q \in {r \in shorter : Len(r) = n - 1}, x \in S}

Range(q) == {q[i] : i \in 1..Len(q)}

\* k8s_client.list_node(watch=False).items: the nodes of the cluster in any
\* order (a node name is the key of the node, so no name comes twice)
Inventories == {q \in SeqsUpTo(NodeNames, MaxNodes) : Cardinality(Range(q)) = Len(q)}

\* [f(x) for x in q if keep(x)] of line 112: the names of the listing whose
\* agentpool label is the pool's name, in listing order, duplicates kept.
RECURSIVE NamesInPool(_)
NamesInPool(q) ==
    IF q = <<>> THEN <<>>
    ELSE IF AgentpoolLabel[Head(q)] = PoolName
         THEN <<Head(q)>> \o NamesInPool(Tail(q))
         ELSE NamesInPool(Tail(q))

\* sorted(...) of line 111 (insertion sort on the string order)
RECURSIVE InsertSorted(_, _)
InsertSorted(x, q) ==
    IF q = <<>> THEN <<x>>
    ELSE IF NameRank[x] <= NameRank[Head(q)] THEN <<x>> \o q
         ELSE <<Head(q)>> \o InsertSorted(x, Tail(q))

RECURSIVE Sorted(_)
Sorted(q) == IF q = <<>> THEN <<>> ELSE InsertSorted(Head(q), Sorted(Tail(q)))

\* list(set(q)) of line 113: the distinct elements of q, in the iteration
\* order of a set of strings, which depends on the per-process hash seed:
\* any order of the distinct elements.
ListOfSet(q) ==
    {p \in SeqsUpTo(Range(q), Cardinality(Range(q))) :
        Len(p) = Cardinality(Range(q)) /\ Range(p) = Range(q)}

\* get_nodes_in_pool: the lists it can return for a listing
get_nodes_in_pool(listing) == ListOfSet(Sorted(NamesInPool(listing)))

\* [pod for pod in pods if pod.status.phase == pod_phase] of line 99
RECURSIVE PodsInPhase(_, _)
PodsInPhase(listing, pod_phase) ==
    IF listing = <<>> THEN <<>>
    ELSE IF Head(listing) = pod_phase
         THEN <<Head(listing)>> \o PodsInPhase(Tail(listing), pod_phase)
         ELSE PodsInPhase(Tail(listing), pod_phase)

\* The count, had it been taken of the whole listing.
get_number_of_pods_in_phase_Total(listing, pod_phase) == Len(listing)

\* get_number_of_pods_in_phase, line 99: len of the filtered list
get_number_of_pods_in_phase(listing, pod_phase) == Len(PodsInPhase(listing, pod_phase))

\* `last_scaling_event_time or scaler_start_time` of line 252
OrStart(t, start) == IF t = None THEN start ELSE t

(***************************************************************************)
(* Initial state: main() up to the while-loop (lines 234-244).              *)
(***************************************************************************)
NoPool == [count |-> 0, enable_auto_scaling |-> FALSE, provisioning_state |-> "Succeeded"]

Init ==
    /\ scaler_start_time = 0
    /\ clock \in {scaler_start_time + d : d \in Advance}
    /\ last_scaling_event_time = None
    /\ pc = "fetch"
    /\ ticks = 0
    /\ outcome = "none"
    /\ config_params \in [DEFAULT_DOWN_SCALING_STRATEGY : Strategies,
                           DEFAULT_POD_PHASE : {DEFAULT_POD_PHASE}]
    /\ agent_pool = NoPool
    /\ last_arg = None
    /\ scaling_start_time = None
    /\ scaling_event_time = None
    /\ pre_scale_pool_size = None
    /\ post_scale_pool_size = None
    /\ nodes = <<>>
    /\ nodes_pre_scale = <<>>
    /\ queued_pods = None
    /\ pods = <<>>
    /\ node_to_remove = NoNode
    /\ polls = 0
    /\ busy = FALSE
    /\ warned = FALSE
    /\ calls = <<>>

locals == <<last_arg, scaling_start_time, scaling_event_time, pre_scale_pool_size,
            post_scale_pool_size, nodes, nodes_pre_scale, queued_pods,
            node_to_remove, polls, busy, warned, calls>>
fixed == <<scaler_start_time, config_params, ticks, pods>>

\* The handler of lines 254-255, had it reset the event time.
Raise_LosesEventTime ==
    /\ outcome' = "raised"
    /\ pc' = "sleep"
    /\ last_scaling_event_time' = None

\* The handler of lines 254-255, had the call gone on to the delete step.
Raise_GoesOn ==
    /\ outcome' = "raised"
    /\ pc' = "delete"
    /\ UNCHANGED last_scaling_event_time

\* An exception leaves aks_scaler (or the pool fetch) and is caught at
\* lines 254-255: the assignment of line 250 does not happen.
Raise ==
    /\ outcome' = "raised"
    /\ pc' = "sleep"
    /\ UNCHANGED last_scaling_event_time

\* The return, had every call that returns set the event time to now.
Return_Now(t) ==
    /\ outcome' = "returned"
    /\ pc' = "sleep"
    /\ last_scaling_event_time' = clock

\* aks_scaler returns t and line 250 assigns it.
Return(t) ==
    /\ outcome' = "returned"
    /\ pc' = "sleep"
    /\ last_scaling_event_time' = t

Call(op, node, count) == [op |-> op, node |-> node, count |-> count]

(***************************************************************************)
(* main, line 247: fetch the pool.                                          *)
(***************************************************************************)
Fetch ==
    /\ pc = "fetch"
    /\ \/ /\ \E p \in Pools : agent_pool' = p
          /\ pc' = "enter"
          /\ outcome' = "running"
          /\ UNCHANGED last_scaling_event_time
       \/ /\ Raise                                   \* agent_pools.get raises
          /\ UNCHANGED agent_pool
    /\ UNCHANGED <<clock, fixed, locals>>

\* The early exits without the check of the provisioning state.
EarlyExit_AutoscalingOnly(pool) ==
    pool.enable_auto_scaling

\* aks_scaler, lines 137-144: the two early exits
EarlyExit(pool) ==
    \/ pool.enable_auto_scaling
    \/ pool.provisioning_state # "Succeeded"

(***************************************************************************)
(* main, lines 250-253 and aks_scaler, lines 132-144: the call and its      *)
(* early exits.                                                             *)
(***************************************************************************)
Enter ==
    /\ pc = "enter"
    /\ last_arg' = OrStart(last_scaling_event_time, scaler_start_time)
    /\ scaling_start_time' = clock
    /\ scaling_event_time' = None
    /\ post_scale_pool_size' = agent_pool.count
    /\ IF EarlyExit(agent_pool)
       THEN Return(last_arg')
       ELSE /\ pc' = "list_nodes"
            /\ UNCHANGED <<outcome, last_scaling_event_time>>
    /\ UNCHANGED <<clock, fixed, agent_pool, pre_scale_pool_size, nodes,
                   nodes_pre_scale, queued_pods, node_to_remove, polls, busy, warned, calls>>

(***************************************************************************)
(* get_nodes_in_pool, line 110: list the nodes.                             *)
(***************************************************************************)
ListNodes ==
    /\ pc = "list_nodes"
    /\ \/ /\ \E listing \in Inventories : nodes' = listing
          /\ pc' = "nodes_listed"
          /\ UNCHANGED <<outcome, last_scaling_event_time>>
       \/ /\ Raise                                   \* list_node raises
          /\ UNCHANGED nodes
    /\ UNCHANGED <<clock, fixed, agent_pool, last_arg, scaling_start_time,
                   scaling_event_time, pre_scale_pool_size, post_scale_pool_size,
                   nodes_pre_scale, queued_pods, node_to_remove, polls, busy, warned, calls>>

(***************************************************************************)
(* get_nodes_in_pool, lines 111-113, and aks_scaler, lines 146-149.         *)
(***************************************************************************)
ReadCluster ==
    /\ pc = "nodes_listed"
    /\ nodes_pre_scale' \in get_nodes_in_pool(nodes)
    /\ nodes' = <<>>
    /\ pre_scale_pool_size' = agent_pool.count
    /\ \/ /\ \E q \in QueuedChoices : queued_pods' = q
          /\ pc' = "decide"
          /\ UNCHANGED <<outcome, last_scaling_event_time>>
       \/ /\ Raise                                   \* list_namespaced_pod raises
          /\ UNCHANGED queued_pods
    /\ UNCHANGED <<clock, fixed, agent_pool, last_arg, scaling_start_time,
                   scaling_event_time, post_scale_pool_size, node_to_remove,
                   polls, busy, warned, calls>>

\* line 152: (last_scaling_event_time - now).seconds > DELAY_BEFORE_SCALE_UP
ScaleUpDue(last, now) == TimedeltaSeconds(last - now) > DELAY_BEFORE_SCALE_UP

\* lines 168-169: (last_scaling_event_time - now).seconds > DELAY_BEFORE_SCALE_DOWN
ScaleDownDue(last, now) == TimedeltaSeconds(last - now) > DELAY_BEFORE_SCALE_DOWN

\* The test of the strategy, had every value been accepted.
KnownStrategy_Any(strategy) == TRUE

\* lines 158-165: the strategies that have a branch; any other reaches the
\* ValueError of line 165
KnownStrategy(strategy) == strategy \in {"latest", "oldest"}

\* The candidate, had it been taken from the names of the whole cluster
\* instead of the pool's.
Candidate_OfCluster(strategy, names) ==
    IF names = <<>> THEN Unbound ELSE "nodeX"

\* lines 158-165: the candidate; Unbound when the IndexError was suppressed
\* and node_to_remove was never assigned.
Candidate(strategy, names) ==
    IF names = <<>> THEN Unbound
    ELSE IF strategy = "latest" THEN names[Len(names)] ELSE names[1]

(***************************************************************************)
(* aks_scaler, lines 151-171: the decision, up to the cordon.               *)
(***************************************************************************)
Decide ==
    /\ pc = "decide"
    /\ IF queued_pods > MAX_POD_QUEUE
       THEN \* scale-up branch, lines 152-156
            /\ IF ScaleUpDue(last_arg, clock)
               THEN /\ agent_pool' = [agent_pool EXCEPT !.count = @ + 1]
                    /\ post_scale_pool_size' = agent_pool.count + 1
                    /\ scaling_event_time' = clock
               ELSE UNCHANGED <<agent_pool, post_scale_pool_size, scaling_event_time>>
            /\ pc' = "sync"
            /\ UNCHANGED <<node_to_remove, calls, outcome, last_scaling_event_time>>
       ELSE IF queued_pods < MAX_POD_QUEUE
       THEN \* scale-down branch, lines 158-171
            /\ UNCHANGED <<agent_pool, post_scale_pool_size, scaling_event_time>>
            /\ IF ~KnownStrategy(config_params.DEFAULT_DOWN_SCALING_STRATEGY)
               THEN \* line 165: ValueError
                    /\ Raise
                    /\ UNCHANGED <<node_to_remove, calls>>
               ELSE /\ node_to_remove' =
                          Candidate(config_params.DEFAULT_DOWN_SCALING_STRATEGY, nodes_pre_scale)
                    /\ IF node_to_remove' = Unbound
                       THEN \* line 168 reads the unassigned local: UnboundLocalError
                            /\ Raise
                            /\ UNCHANGED calls
                       ELSE IF ScaleDownDue(last_arg, clock)
                       THEN \* line 171: cordon
                            /\ calls' = Append(calls, Call("patch_node", node_to_remove', None))
                            /\ \/ /\ pc' = "drain_poll"
                                  /\ UNCHANGED <<outcome, last_scaling_event_time>>
                               \/ Raise                       \* patch_node raises
                       ELSE /\ pc' = "sync"
                            /\ UNCHANGED <<calls, outcome, last_scaling_event_time>>
       ELSE \* queued_pods = MAX_POD_QUEUE: neither branch
            /\ pc' = "sync"
            /\ UNCHANGED <<agent_pool, post_scale_pool_size, scaling_event_time,
                           node_to_remove, calls, outcome, last_scaling_event_time>>
    /\ UNCHANGED <<clock, fixed, last_arg, scaling_start_time, pre_scale_pool_size,
                   nodes, nodes_pre_scale, queued_pods, polls, busy, warned>>

\* The loop condition without the test of the node's pods.
DrainContinues_UntilTimeout(b, start, now) ==
    TimedeltaSeconds(now - start) < TIMEOUT

\* The loop condition without the test of the elapsed time.
DrainContinues_WhileBusy(b, start, now) ==
    b

\* lines 172-173: the condition of the drain-wait loop, for the answer of
\* get_pods_running_on_node (busy: the list is not empty)
DrainContinues(b, start, now) ==
    b /\ TimedeltaSeconds(now - start) < TIMEOUT

\* line 177: the condition under which the warning of line 178 is logged
WarnCondition(start, now) == TimedeltaSeconds(now - start) < TIMEOUT

(***************************************************************************)
(* aks_scaler, lines 172-173 and 177-178: one evaluation of the loop        *)
(* condition; when it is false, the check of line 177.                      *)
(***************************************************************************)
DrainPoll ==
    /\ pc = "drain_poll"
    /\ polls' = polls + 1
    /\ \/ /\ \E b \in BOOLEAN : busy' = b
          /\ IF DrainContinues(busy', scaling_start_time, clock)
             THEN /\ pc' = "drain_wait"
                  /\ UNCHANGED warned
             ELSE /\ pc' = "delete"
                  /\ warned' = WarnCondition(scaling_start_time, clock)
          /\ UNCHANGED <<outcome, last_scaling_event_time>>
       \/ /\ Raise                                   \* list_namespaced_pod raises
          /\ UNCHANGED <<busy, warned>>
    /\ UNCHANGED <<clock, fixed, agent_pool, last_arg, scaling_start_time,
                   scaling_event_time, pre_scale_pool_size, post_scale_pool_size,
                   nodes, nodes_pre_scale, queued_pods, node_to_remove, calls>>

(***************************************************************************)
(* aks_scaler, lines 174-176: the body of the drain-wait loop: the listing  *)
(* that is logged, then sleep(1).                                           *)
(***************************************************************************)
DrainWait ==
    /\ pc = "drain_wait"
    /\ \/ /\ clock' = clock + PollInterval
          /\ pc' = "drain_poll"
          /\ UNCHANGED <<outcome, last_scaling_event_time>>
       \/ /\ Raise                                   \* list_namespaced_pod raises
          /\ UNCHANGED clock
    /\ UNCHANGED <<fixed, agent_pool, last_arg, scaling_start_time,
                   scaling_event_time, pre_scale_pool_size, post_scale_pool_size,
                   nodes, nodes_pre_scale, queued_pods, node_to_remove, polls,
                   busy, warned, calls>>

\* The test of line 181, had it let the count reach 0.
Decrements_ToZero(count) == count > 0

\* line 181: the pool is shrunk through its count (otherwise through
\* aks_scale_pool_to_0)
Decrements(count) == count > 1

\* Lines 179-191, had the pool been scaled to 0 before the node was deleted.
Delete_ShrinksFirst ==
    /\ pc = "delete"
    /\ \/ /\ Decrements(agent_pool.count)
          /\ calls' = Append(calls, Call("delete_node", node_to_remove, None))
          /\ agent_pool' = [agent_pool EXCEPT !.count = @ - 1]
          /\ post_scale_pool_size' = agent_pool.count - 1
          /\ scaling_event_time' = clock
          /\ pc' = "sync"
          /\ UNCHANGED <<outcome, last_scaling_event_time>>
       \/ /\ ~Decrements(agent_pool.count)
          /\ calls' = calls \o <<Call("aks_scale_pool_to_0", NoNode, 0),
                                 Call("delete_node", node_to_remove, None)>>
          /\ \/ /\ post_scale_pool_size' = agent_pool.count
                /\ scaling_event_time' = clock
                /\ pc' = "sync"
                /\ UNCHANGED <<agent_pool, outcome, last_scaling_event_time>>
             \/ /\ Raise                             \* cli.invoke raises
                /\ UNCHANGED <<agent_pool, post_scale_pool_size, scaling_event_time>>
       \/ /\ calls' = Append(calls, Call("delete_node", node_to_remove, None))
          /\ Raise                                   \* delete_node raises
          /\ UNCHANGED <<agent_pool, post_scale_pool_size, scaling_event_time>>
    /\ UNCHANGED <<clock, fixed, last_arg, scaling_start_time, pre_scale_pool_size,
                   nodes, nodes_pre_scale, queued_pods, node_to_remove, polls, busy, warned>>

(***************************************************************************)
(* aks_scaler, lines 179-191: delete the node, then shrink the pool.        *)
(***************************************************************************)
Delete ==
    /\ pc = "delete"
    /\ \/ /\ Decrements(agent_pool.count)
          /\ calls' = Append(calls, Call("delete_node", node_to_remove, None))
          /\ agent_pool' = [agent_pool EXCEPT !.count = @ - 1]
          /\ post_scale_pool_size' = agent_pool.count - 1
          /\ scaling_event_time' = clock
          /\ pc' = "sync"
          /\ UNCHANGED <<outcome, last_scaling_event_time>>
       \/ /\ ~Decrements(agent_pool.count)
          /\ calls' = calls \o <<Call("delete_node", node_to_remove, None),
                                 Call("aks_scale_pool_to_0", NoNode, 0)>>
          /\ \/ /\ post_scale_pool_size' = agent_pool.count
                /\ scaling_event_time' = clock
                /\ pc' = "sync"
                /\ UNCHANGED <<agent_pool, outcome, last_scaling_event_time>>
             \/ /\ Raise                             \* cli.invoke raises
                /\ UNCHANGED <<agent_pool, post_scale_pool_size, scaling_event_time>>
       \/ /\ calls' = Append(calls, Call("delete_node", node_to_remove, None))
          /\ Raise                                   \* delete_node raises
          /\ UNCHANGED <<agent_pool, post_scale_pool_size, scaling_event_time>>
    /\ UNCHANGED <<clock, fixed, last_arg, scaling_start_time, pre_scale_pool_size,
                   nodes, nodes_pre_scale, queued_pods, node_to_remove, polls, busy, warned>>

(***************************************************************************)
(* aks_scaler, lines 193-201, and the assignment of line 250.               *)
(***************************************************************************)
Sync ==
    /\ pc = "sync"
    /\ IF post_scale_pool_size # pre_scale_pool_size
       THEN /\ calls' = Append(calls, Call("create_or_update", NoNode, agent_pool.count))
            /\ \/ Return(IF scaling_event_time # None THEN scaling_event_time ELSE last_arg)
               \/ Raise                              \* create_or_update raises
       ELSE /\ Return(IF scaling_event_time # None THEN scaling_event_time ELSE last_arg)
            /\ UNCHANGED calls
    /\ UNCHANGED <<clock, fixed, agent_pool, last_arg, scaling_start_time,
                   scaling_event_time, pre_scale_pool_size, post_scale_pool_size,
                   nodes, nodes_pre_scale, queued_pods, node_to_remove, polls, busy, warned>>

(***************************************************************************)
(* main, line 256: sleep(PERIODIC_CHECK_RATE), then the next iteration.     *)
(* What the finished iteration left behind (the pool it fetched, the locals *)
(* of aks_scaler) is never read again.                                      *)
(***************************************************************************)
Sleep ==
    /\ pc = "sleep"
    /\ ticks < MaxTicks
    /\ \E d \in Advance : clock' = clock + d
    /\ ticks' = ticks + 1
    /\ pc' = "fetch"
    /\ outcome' = "none"
    /\ agent_pool' = NoPool
    /\ last_arg' = None
    /\ scaling_start_time' = None
    /\ scaling_event_time' = None
    /\ pre_scale_pool_size' = None
    /\ post_scale_pool_size' = None
    /\ nodes' = <<>>
    /\ nodes_pre_scale' = <<>>
    /\ queued_pods' = None
    /\ node_to_remove' = NoNode
    /\ polls' = 0
    /\ busy' = FALSE
    /\ warned' = FALSE
    /\ calls' = <<>>
    /\ UNCHANGED <<scaler_start_time, config_params, last_scaling_event_time, pods>>

Next ==
    \/ Fetch
    \/ Enter
    \/ ListNodes
    \/ ReadCluster
    \/ Decide
    \/ DrainPoll
    \/ DrainWait
    \/ Delete
    \/ Sync
    \/ Sleep

Spec == Init /\ [][Next]_vars

\* The program is one sequential process: a call of aks_scaler that is in its
\* drain wait or at its delete step takes its next step.
FairSpec == Spec /\ WF_vars(DrainPoll) /\ WF_vars(DrainWait) /\ WF_vars(Delete)

(***************************************************************************)
(* get_number_of_pods_in_phase on its own (lines 98-99): one call for a     *)
(* pod listing and a phase.                                                 *)
(***************************************************************************)
CountInit ==
    /\ scaler_start_time = 0
    /\ clock = 0
    /\ last_scaling_event_time = None
    /\ pc = "count_pods"
    /\ ticks = 0
    /\ outcome = "none"
    /\ config_params \in [DEFAULT_DOWN_SCALING_STRATEGY : {"latest"},
                           DEFAULT_POD_PHASE : PodPhases]
    /\ agent_pool = NoPool
    /\ last_arg = None
    /\ scaling_start_time = None
    /\ scaling_event_time = None
    /\ pre_scale_pool_size = None
    /\ post_scale_pool_size = None
    /\ nodes = <<>>
    /\ nodes_pre_scale = <<>>
    /\ queued_pods = None
    /\ pods \in SeqsUpTo(PodPhases, MaxPods)
    /\ node_to_remove = NoNode
    /\ polls = 0
    /\ busy = FALSE
    /\ warned = FALSE
    /\ calls = <<>>

CountPods ==
    /\ pc = "count_pods"
    /\ queued_pods' = get_number_of_pods_in_phase(pods, config_params.DEFAULT_POD_PHASE)
    /\ pc' = "counted"
    /\ UNCHANGED <<clock, fixed, last_scaling_event_time, outcome, agent_pool,
                   last_arg, scaling_start_time, scaling_event_time,
                   pre_scale_pool_size, post_scale_pool_size, nodes, nodes_pre_scale,
                   node_to_remove, polls, busy, warned, calls>>

CountNext == CountPods

CountSpec == CountInit /\ [][CountNext]_vars

TypeOK ==
    /\ clock \in Nat
    /\ pc \in {"fetch", "enter", "list_nodes", "nodes_listed", "decide",
               "drain_poll", "drain_wait", "delete", "sync", "sleep"}
    /\ outcome \in {"none", "running", "returned", "raised"}
    /\ agent_pool.count \in 0..(MaxCount + 1)
    /\ last_scaling_event_time \in Nat \cup {None}

(***************************************************************************)
(* Properties.  A tick has ended when pc = "sleep"; the locals of its call  *)
(* of aks_scaler are still visible there.                                   *)
(***************************************************************************)
Ops(q) == {q[i].op : i \in 1..Len(q)}

\* The names of q are in strictly increasing string order.
InNameOrder(q) == \A i, j \in 1..Len(q) : i < j => NameRank[q[i]] < NameRank[q[j]]

\* C1: a call of aks_scaler for a pool that has autoscaling enabled, or whose
\* provisioning state is not Succeeded, returns the last event time it was
\* given and issues no pool update, no scale-to-zero, no cordon and no
\* deletion; it does not even go on to read the cluster.
C1_EarlyExit ==
    (/\ pc \notin {"fetch", "enter"}
     /\ (agent_pool.enable_auto_scaling \/ agent_pool.provisioning_state # "Succeeded"))
    => /\ pc = "sleep"
       /\ outcome = "returned"
       /\ last_scaling_event_time = last_arg
       /\ queued_pods = None
       /\ calls = <<>>

C1_Witness ==
    /\ pc = "sleep"
    /\ outcome = "returned"
    /\ ~agent_pool.enable_auto_scaling
    /\ agent_pool.provisioning_state = "Updating"
    /\ last_scaling_event_time = last_arg
    /\ calls = <<>>

\* C2: a tick that passes the early exits with queued > maxQueue and with more
\* than scaleUpDelay seconds elapsed since the last event time raises the
\* count by exactly 1 and issues exactly one create_or_update, with the new
\* count.
C2_ScaleUp ==
    (/\ pc = "sleep"
     /\ queued_pods # None
     /\ queued_pods > MAX_POD_QUEUE
     /\ clock - last_arg > DELAY_BEFORE_SCALE_UP)
    => /\ agent_pool.count = pre_scale_pool_size + 1
       /\ calls = <<Call("create_or_update", NoNode, pre_scale_pool_size + 1)>>

\* C3: a tick with queued > maxQueue in which the time elapsed since the last
\* event time does not exceed scaleUpDelay changes nothing: the count is
\* unchanged, no call is issued and the event time returned is the input.
C3_ScaleUpHysteresis ==
    (/\ pc = "sleep"
     /\ queued_pods # None
     /\ queued_pods > MAX_POD_QUEUE
     /\ clock - last_arg <= DELAY_BEFORE_SCALE_UP)
    => /\ agent_pool.count = pre_scale_pool_size
       /\ calls = <<>>
       /\ outcome = "returned"
       /\ last_scaling_event_time = last_arg

\* C4: a node is cordoned or deleted, and the pool shrunk, only in a tick that
\* began more than scaleDownDelay seconds after the last event time.
C4_ScaleDownHysteresis ==
    (\/ Ops(calls) \cap {"patch_node", "delete_node", "aks_scale_pool_to_0"} # {}
     \/ (pre_scale_pool_size # None /\ agent_pool.count < pre_scale_pool_size))
    => scaling_start_time - last_arg > DELAY_BEFORE_SCALE_DOWN

\* C5: the node a scale-down tick deletes is the first of the pool's node
\* names in sorted order for strategy oldest, and the last for latest.
C5_CandidateSelection ==
    \A i \in 1..Len(calls) :
        calls[i].op = "delete_node" =>
            /\ config_params.DEFAULT_DOWN_SCALING_STRATEGY = "oldest" =>
                   \A n \in Range(nodes_pre_scale) : NameRank[calls[i].node] <= NameRank[n]
            /\ config_params.DEFAULT_DOWN_SCALING_STRATEGY = "latest" =>
                   \A n \in Range(nodes_pre_scale) : NameRank[calls[i].node] >= NameRank[n]

\* C6: get_nodes_in_pool returns exactly the names of the listed nodes whose
\* agentpool label is the pool's name, each once, in sorted order.
C6_NodesInPool ==
    [][pc = "nodes_listed" =>
          LET S == {n \in Range(nodes) : AgentpoolLabel[n] = PoolName}
          IN  /\ Range(nodes_pre_scale') = S
              /\ Len(nodes_pre_scale') = Cardinality(S)
              /\ InNameOrder(nodes_pre_scale')]_vars

\* The next call the step issues is delete_node on the candidate.
DeletesNow ==
    /\ Len(calls') > Len(calls)
    /\ calls'[Len(calls) + 1] = Call("delete_node", node_to_remove, None)

\* C7: once the node is cordoned, the first evaluation of the drain-wait
\* condition that finds no pod on the node ends the wait, whatever remains of
\* the timeout, and the node is deleted at that very time.
C7_DrainEarlyCompletion ==
    [][/\ (pc = "drain_poll" /\ outcome' # "raised" /\ ~busy')
            => (pc' = "delete" /\ clock' = clock)
       /\ pc = "delete" => (DeletesNow /\ clock' = clock)]_vars

C7_Witness ==
    /\ pc \in {"sync", "sleep"}
    /\ "delete_node" \in Ops(calls)
    /\ ~busy
    /\ polls = 2
    /\ clock - scaling_start_time = PollInterval
    /\ clock - scaling_start_time < TIMEOUT

ScaledDown ==
    /\ pc \in {"sync", "sleep"}
    /\ "delete_node" \in Ops(calls)
    /\ scaling_event_time # None

\* C9: a scale-down of a pool whose count is 1 invokes aks_scale_pool_to_0,
\* leaves the count at 1 and issues no create_or_update; a scale-down of a
\* pool whose count is above 1 lowers the count by exactly 1, does not invoke
\* aks_scale_pool_to_0, and the tick's update carries the lowered count.
C9_ScaleToZero ==
    ScaledDown =>
        /\ pre_scale_pool_size = 1 =>
              /\ "aks_scale_pool_to_0" \in Ops(calls)
              /\ agent_pool.count = 1
              /\ "create_or_update" \notin Ops(calls)
        /\ pre_scale_pool_size > 1 =>
              /\ agent_pool.count = pre_scale_pool_size - 1
              /\ "aks_scale_pool_to_0" \notin Ops(calls)
              /\ pc = "sleep" =>
                    calls[Len(calls)] = Call("create_or_update", NoNode, pre_scale_pool_size - 1)

C9_Witness ==
    /\ ScaledDown
    /\ pc = "sleep"
    /\ outcome = "returned"
    /\ pre_scale_pool_size = 1
    /\ agent_pool.count = 1
    /\ calls[Len(calls)].op = "aks_scale_pool_to_0"

\* C10: a remote call that raises ends the tick without ending the loop: main
\* goes to its sleep with last_scaling_event_time as it was, from there to the
\* next fetch after the poll period, and the next call of aks_scaler is given
\* the same event time as the failed one.
C10_FailureIsolation ==
    /\ [][/\ (outcome # "raised" /\ outcome' = "raised")
               => (pc' = "sleep" /\ last_scaling_event_time' = last_scaling_event_time)
          /\ (pc = "sleep" /\ outcome = "raised")
               => (pc' = "fetch" /\ clock' > clock
                   /\ last_scaling_event_time' = last_scaling_event_time)
          /\ pc = "fetch" => last_scaling_event_time' = last_scaling_event_time
          /\ pc = "enter" =>
                last_arg' = OrStart(last_scaling_event_time, scaler_start_time)]_vars
    /\ [](outcome = "raised" /\ last_arg # None
             => last_arg = OrStart(last_scaling_event_time, scaler_start_time))

C10_Witness ==
    /\ pc = "sleep"
    /\ outcome = "raised"
    /\ "delete_node" \in Ops(calls)
    /\ last_scaling_event_time # None
    /\ last_scaling_event_time > scaler_start_time
    /\ last_arg = last_scaling_event_time

\* C11: get_number_of_pods_in_phase returns the number of entries of the
\* listing whose phase is the queried phase: entries in other phases add
\* nothing, and the order of the listing does not matter (every listing with
\* the same entries in another order gives the same count).
C11_CountInPhase ==
    pc = "counted" =>
        LET phase == config_params.DEFAULT_POD_PHASE
            Same(q) == \A ph \in PodPhases :
                          Cardinality({i \in 1..Len(q) : q[i] = ph})
                            = Cardinality({i \in 1..Len(pods) : pods[i] = ph})
        IN  /\ queued_pods = Cardinality({i \in 1..Len(pods) : pods[i] = phase})
            /\ \A q \in SeqsUpTo(PodPhases, Len(pods)) :
                   (Len(q) = Len(pods) /\ Same(q))
                       => get_number_of_pods_in_phase(q, phase) = queued_pods

\* The listing of tests/test.py, lines 25-31, queried for Running.
C11_Witness ==
    /\ pc = "counted"
    /\ pods = <<"Running", "Pending", "Running", "Failed">>
    /\ config_params.DEFAULT_POD_PHASE = "Running"
    /\ queued_pods = 2

\* C12: every call of aks_scaler that returns has fetched the container
\* service exactly once through the cloud client (container_services.get),
\* also for a pool that is not Succeeded.  The calls aks_scaler makes through
\* the cloud client are in calls; its code has create_or_update (line 196) and
\* no other.
C12_FetchesContainerService ==
    (pc = "sleep" /\ outcome = "returned")
    => Cardinality({i \in 1..Len(calls) : calls[i].op = "container_services.get"}) = 1

\* C13: in a tick that removes a node the calls come in the order cordon,
\* drain-wait polls, delete, pool-size change: a delete_node is issued only
\* for the node cordoned just before it in the same tick and after at least
\* one poll, the cordon comes before every poll, a scale-to-zero command, a
\* lowered count and the create_or_update that carries it come only after the
\* delete_node, and the wait is followed by the delete whether it ended with
\* the node empty or with the time used up.
C13_RemovalOrder ==
    /\ [](\A i \in 1..Len(calls) :
            /\ calls[i].op = "delete_node" =>
                   /\ i = 2
                   /\ calls[1] = Call("patch_node", calls[i].node, None)
                   /\ polls >= 1
            /\ (\/ calls[i].op = "aks_scale_pool_to_0"
                \/ (calls[i].op = "create_or_update" /\ calls[i].count < pre_scale_pool_size))
                   => \E j \in 1..(i - 1) : calls[j].op = "delete_node")
    /\ []((pre_scale_pool_size # None /\ agent_pool.count < pre_scale_pool_size)
             => "delete_node" \in Ops(calls))
    /\ [][/\ ("patch_node" \notin Ops(calls) /\ "patch_node" \in Ops(calls'))
               => (polls = 0 /\ polls' = 0 /\ calls = <<>>)
          /\ (pc = "drain_poll" /\ outcome' # "raised"
                /\ ~(busy' /\ clock - scaling_start_time < TIMEOUT))
               => pc' = "delete"
          /\ pc = "delete" => DeletesNow]_vars

\* A removal whose wait ended by timeout, followed by the resize.
C13_Witness ==
    /\ pc = "sleep"
    /\ outcome = "returned"
    /\ busy
    /\ polls = TIMEOUT + 1
    /\ Len(calls) = 3
    /\ calls[1].op = "patch_node"
    /\ calls[2] = Call("delete_node", calls[1].node, None)
    /\ calls[3] = Call("create_or_update", NoNode, pre_scale_pool_size - 1)

\* C14: a tick that passes the early exits with queued < maxQueue, a known
\* strategy and no node of the pool in the listing skips the removal:
\* aks_scaler returns normally with the event time it was given, having issued
\* no cordon, no delete, no scale-to-zero and no resize.
C14_EmptyCandidateList ==
    (/\ pc = "sleep"
     /\ queued_pods # None
     /\ queued_pods < MAX_POD_QUEUE
     /\ config_params.DEFAULT_DOWN_SCALING_STRATEGY \in {"latest", "oldest"}
     /\ nodes_pre_scale = <<>>)
    => /\ outcome = "returned"
       /\ calls = <<>>
       /\ agent_pool.count = pre_scale_pool_size
       /\ last_scaling_event_time = last_arg

\* C15: when the drain wait ends because the timeout is reached while pods
\* are still on the node, the warning has been logged by the time the node is
\* deleted, and the delete follows.
C15_TimeoutWarning ==
    (/\ pc \in {"delete", "sync", "sleep"}
     /\ polls >= 1
     /\ outcome # "raised"
     /\ busy)
    => warned

\* C16, as stated: every call of aks_scaler that passes the early exits and
\* reads the cluster under a strategy other than latest and oldest ends with
\* the configuration error, having changed nothing.
C16_UnknownStrategyAlways ==
    (/\ pc = "sleep"
     /\ queued_pods # None
     /\ config_params.DEFAULT_DOWN_SCALING_STRATEGY \notin {"latest", "oldest"})
    => /\ outcome = "raised"
       /\ calls = <<>>
       /\ agent_pool.count = pre_scale_pool_size

\* The call has read the cluster, found queued < maxQueue, and the strategy is
\* neither latest nor oldest.
UnknownStrategyScaleDown ==
    /\ queued_pods # None
    /\ queued_pods < MAX_POD_QUEUE
    /\ config_params.DEFAULT_DOWN_SCALING_STRATEGY \notin {"latest", "oldest"}

\* C16, amended: a call of aks_scaler that passes the early exits with
\* queued < maxQueue under a strategy other than latest and oldest raises the
\* configuration error at its decision, before any cordon, delete, count
\* change or resize call; main catches it and goes on to the next tick with
\* last_scaling_event_time unchanged.  (With queued >= maxQueue the strategy
\* is not looked at.)
C16_UnknownStrategyScaleDown ==
    /\ [][/\ (pc = "decide" /\ UnknownStrategyScaleDown)
               => /\ outcome' = "raised"
                  /\ pc' = "sleep"
                  /\ calls' = <<>>
                  /\ agent_pool' = agent_pool
                  /\ last_scaling_event_time' = last_scaling_event_time
          /\ (pc = "sleep" /\ UnknownStrategyScaleDown)
               => /\ pc' = "fetch"
                  /\ last_scaling_event_time' = last_scaling_event_time]_vars
    /\ []((pc = "sleep" /\ UnknownStrategyScaleDown)
             => /\ outcome = "raised"
                /\ calls = <<>>
                /\ agent_pool.count = pre_scale_pool_size
                /\ OrStart(last_scaling_event_time, scaler_start_time) = last_arg)

C16_Witness ==
    /\ pc = "sleep"
    /\ outcome = "raised"
    /\ config_params.DEFAULT_DOWN_SCALING_STRATEGY = "random"
    /\ queued_pods = 5
    /\ nodes_pre_scale # <<>>
    /\ agent_pool.count >= 1
    /\ calls = <<>>

\* C17: when patch_node raises, the tick ends there: no poll of the node is
\* made and the cordon is not issued again, no delete_node, resize or
\* scale-to-zero follows in the tick, the pool's count and
\* last_scaling_event_time stay as they were, and main goes on to its sleep
\* and the next fetch.
C17_CordonFailure ==
    /\ [][/\ (/\ pc = "decide"
              /\ "patch_node" \in Ops(calls')
              /\ outcome' = "raised")
               => /\ pc' = "sleep"
                  /\ calls' = <<Call("patch_node", node_to_remove', None)>>
                  /\ polls' = 0
                  /\ agent_pool' = agent_pool
                  /\ post_scale_pool_size' = pre_scale_pool_size
                  /\ last_scaling_event_time' = last_scaling_event_time
          /\ (pc = "sleep" /\ outcome = "raised")
               => /\ pc' = "fetch"
                  /\ calls' = <<>>
                  /\ last_scaling_event_time' = last_scaling_event_time]_vars
    /\ []((/\ pc = "sleep"
           /\ outcome = "raised"
           /\ polls = 0
           /\ "patch_node" \in Ops(calls))
             => /\ Len(calls) = 1
                /\ agent_pool.count = pre_scale_pool_size
                /\ OrStart(last_scaling_event_time, scaler_start_time) = last_arg)

\* The cordon of nodeB failed in a tick that began with a pool of 2.
C17_Witness ==
    /\ pc = "sleep"
    /\ outcome = "raised"
    /\ polls = 0
    /\ calls = <<Call("patch_node", "nodeB", None)>>
    /\ agent_pool.count = 2

\* A step in which a tick ends (its call of aks_scaler returns or raises, or
\* the pool fetch raises).
TickEnds == pc # "sleep" /\ pc' = "sleep"

\* The tick raised the pool's count (the create_or_update that carries the
\* raised count was answered), or deleted a node (its delete_node call was
\* answered: another call was issued after it).
Scaled ==
    \/ /\ pre_scale_pool_size # None
       /\ agent_pool.count > pre_scale_pool_size
       /\ outcome = "returned"
    \/ \E i \in 1..(Len(calls) - 1) : calls[i].op = "delete_node"

\* What the tick did was due: it began more than the delay of its direction
\* after the event time it was given.
ScalingWasDue ==
    /\ "patch_node" \in Ops(calls)
           => scaling_start_time - last_arg > DELAY_BEFORE_SCALE_DOWN
    /\ (pre_scale_pool_size # None /\ agent_pool.count > pre_scale_pool_size)
           => scaling_start_time - last_arg > DELAY_BEFORE_SCALE_UP

\* C18, as stated: the event time given to aks_scaler starts as the start
\* time of the loop; a tick in which the count was raised or a node was
\* deleted replaces it by the current time; every other tick, a tick with
\* queued = maxQueue among them, leaves it as it was.  (Stated of the ticks
\* whose scaling was due.)
C18_EventTimeLifecycle ==
    /\ [][/\ (TickEnds /\ ScalingWasDue') =>
                IF Scaled'
                THEN last_scaling_event_time' = clock'
                ELSE OrStart(last_scaling_event_time', scaler_start_time)
                       = OrStart(last_scaling_event_time, scaler_start_time)
          /\ ~TickEnds => last_scaling_event_time' = last_scaling_event_time]_vars
    /\ [](ticks = 0 /\ pc \in {"fetch", "enter"}
             => OrStart(last_scaling_event_time, scaler_start_time) = scaler_start_time)

\* C18, amended: the event time given to aks_scaler starts as the start time
\* of the loop; a tick whose call of aks_scaler returns after raising the
\* count or deleting a node replaces it by the current time; every other tick
\* leaves it as it was: a tick that returns without scaling (queued =
\* maxQueue among them) and a tick that ends by an exception, also when the
\* exception came after the node was deleted.
C18_EventTimeLifecycleReturned ==
    /\ [][/\ TickEnds =>
                IF Scaled' /\ outcome' = "returned"
                THEN last_scaling_event_time' = clock'
                ELSE OrStart(last_scaling_event_time', scaler_start_time)
                       = OrStart(last_scaling_event_time, scaler_start_time)
          /\ ~TickEnds => last_scaling_event_time' = last_scaling_event_time
          /\ pc = "enter" =>
                last_arg' = OrStart(last_scaling_event_time, scaler_start_time)]_vars
    /\ [](ticks = 0 /\ pc \in {"fetch", "enter"}
             => OrStart(last_scaling_event_time, scaler_start_time) = scaler_start_time)

\* A second tick with queued = maxQueue carries the event time of a first
\* tick that scaled.
C18_Witness ==
    /\ pc = "sleep"
    /\ ticks = 1
    /\ outcome = "returned"
    /\ queued_pods = MAX_POD_QUEUE
    /\ last_scaling_event_time > scaler_start_time
    /\ last_scaling_event_time < scaling_start_time

\* C19: every create_or_update a tick issues carries a count of at least 1
\* that differs by exactly 1 from the count fetched at the start of the tick;
\* it is the last call of the tick, so there is at most one; and a tick that
\* ends with the pool's count equal to the fetched count, a tick that ran
\* aks_scale_pool_to_0 among them, issues none.
C19_PoolUpdates ==
    /\ \A i \in 1..Len(calls) :
          calls[i].op = "create_or_update" =>
              /\ calls[i].count >= 1
              /\ calls[i].count \in {pre_scale_pool_size - 1, pre_scale_pool_size + 1}
              /\ calls[i].count = agent_pool.count
              /\ i = Len(calls)
    /\ (\/ (pre_scale_pool_size # None /\ agent_pool.count = pre_scale_pool_size)
        \/ "aks_scale_pool_to_0" \in Ops(calls))
          => "create_or_update" \notin Ops(calls)

\* A tick that took a pool of 2 down to 1 through create_or_update.
C19_Witness ==
    /\ pc = "sleep"
    /\ outcome = "returned"
    /\ pre_scale_pool_size = 2
    /\ "delete_node" \in Ops(calls)
    /\ calls[Len(calls)] = Call("create_or_update", NoNode, 1)

\* C20: a tick scales in one direction at most and touches one node at most:
\* every cordon and delete of the tick is of the one node_to_remove, each is
\* issued once, that node is in the snapshot nodes_pre_scale of the tick, and
\* a tick that raised the count issued no cordon and no delete (and lowered
\* nothing).
C20_OneDirectionOneNode ==
    LET NodeCalls(op) == {i \in 1..Len(calls) : calls[i].op = op}
        raised == pre_scale_pool_size # None /\ agent_pool.count > pre_scale_pool_size
    IN  /\ Cardinality(NodeCalls("patch_node")) <= 1
        /\ Cardinality(NodeCalls("delete_node")) <= 1
        /\ \A i \in NodeCalls("patch_node") \cup NodeCalls("delete_node") :
              /\ calls[i].node = node_to_remove
              /\ calls[i].node \in Range(nodes_pre_scale)
        /\ raised => Ops(calls) \subseteq {"create_or_update"}
        /\ (pre_scale_pool_size # None /\ queued_pods # None /\ queued_pods > MAX_POD_QUEUE)
              => /\ Ops(calls) \subseteq {"create_or_update"}
                 /\ agent_pool.count >= pre_scale_pool_size
        /\ Ops(calls) \cap {"patch_node", "delete_node", "aks_scale_pool_to_0"} # {}
              => agent_pool.count <= pre_scale_pool_size

\* A scale-down tick that cordoned and deleted nodeA out of a snapshot of two
\* nodes.
C20_Witness ==
    /\ pc = "sleep"
    /\ Len(nodes_pre_scale) = 2
    /\ node_to_remove = "nodeA"
    /\ Len(calls) >= 2
    /\ calls[1] = Call("patch_node", "nodeA", None)
    /\ calls[2] = Call("delete_node", "nodeA", None)
    /\ agent_pool.count < pre_scale_pool_size
====
